---- MODULE Spec2Model ----
(***************************************************************************)
(* Model of "EOM Derivation/Equations of Motion.ipynb": a Jupyter kernel   *)
(* that runs the notebook's three code cells (the sympy import, the        *)
(* translational cell that builds acc_cm, the rotational cell that builds  *)
(* ang_acc_cm).  The kernel namespace is the state.  The sympy expressions *)
(* are evaluated exactly, over the rationals, at the values the caller     *)
(* gives to the symbols; sin and cos are evaluated at angles whose sine    *)
(* and cosine are rational.                                                *)
(***************************************************************************)
EXTENDS Integers, Sequences, FiniteSets, TLC

VARIABLES imported, omega_b, C_bn, acc_cm, ang_acc_cm, last, out,
          tin, rin, prevT, prevR

vars == <<imported, omega_b, C_bn, acc_cm, ang_acc_cm, last, out,
          tin, rin, prevT, prevR>>

----------------------------------------------------------------------------
(* Exact arithmetic of sympy numbers.  A number is <<n, d>>: the rational  *)
(* n/d in lowest terms with d > 0, or <<1, 0>> (zoo, the result of a       *)
(* division by zero) or <<0, 0>> (nan).                                    *)

Abs(n) ==
  IF n < 0 THEN -n ELSE n

RECURSIVE Gcd(_, _)
Gcd(a, b) ==
  IF b = 0 THEN a ELSE Gcd(b, a % b)

Norm(n, d) ==
  IF d = 0
    THEN (IF n = 0 THEN <<0, 0>> ELSE <<1, 0>>)
    ELSE LET g == Gcd(Abs(n), Abs(d))
             s == IF d < 0 THEN -1 ELSE 1
         IN  <<(s * n) \div g, (s * d) \div g>>

R(n) ==
  <<n, 1>>

RAdd(a, b) ==
  Norm(a[1] * b[2] + b[1] * a[2], a[2] * b[2])

RNeg(a) ==
  <<-a[1], a[2]>>

RSub(a, b) ==
  RAdd(a, RNeg(b))

RMul(a, b) ==
  Norm(a[1] * b[1], a[2] * b[2])

RDiv(a, b) ==
  Norm(a[1] * b[2], a[2] * b[1])

Positive(a) ==
  a[2] > 0 /\ a[1] > 0

----------------------------------------------------------------------------
(* sympy Matrix: a vector is a 3-tuple of numbers, a matrix a 3-tuple of   *)
(* rows.                                                                   *)

Dot(a, b) ==
  RAdd(RAdd(RMul(a[1], b[1]), RMul(a[2], b[2])), RMul(a[3], b[3]))

Col(A, j) ==
  <<A[1][j], A[2][j], A[3][j]>>

MatVec(A, x) ==
  <<Dot(A[1], x), Dot(A[2], x), Dot(A[3], x)>>

MatMul(A, B) ==
  [i \in 1..3 |-> [j \in 1..3 |-> Dot(A[i], Col(B, j))]]

VAdd(a, b) ==
  <<RAdd(a[1], b[1]), RAdd(a[2], b[2]), RAdd(a[3], b[3])>>

VSub(a, b) ==
  <<RSub(a[1], b[1]), RSub(a[2], b[2]), RSub(a[3], b[3])>>

VScale(k, a) ==
  <<RMul(k, a[1]), RMul(k, a[2]), RMul(k, a[3])>>

CrossSwapped(a, b) ==
  <<RSub(RMul(b[2], a[3]), RMul(b[3], a[2])),
    RSub(RMul(b[3], a[1]), RMul(b[1], a[3])),
    RSub(RMul(b[1], a[2]), RMul(b[2], a[1]))>>

Cross(a, b) ==
  <<RSub(RMul(a[2], b[3]), RMul(a[3], b[2])),
    RSub(RMul(a[3], b[1]), RMul(a[1], b[3])),
    RSub(RMul(a[1], b[2]), RMul(a[2], b[1]))>>

Det(A) ==
  RAdd(RSub(RMul(A[1][1], RSub(RMul(A[2][2], A[3][3]), RMul(A[2][3], A[3][2]))),
            RMul(A[1][2], RSub(RMul(A[2][1], A[3][3]), RMul(A[2][3], A[3][1])))),
       RMul(A[1][3], RSub(RMul(A[2][1], A[3][2]), RMul(A[2][2], A[3][1]))))

Minor(A, r1, r2, c1, c2) ==
  RSub(RMul(A[r1][c1], A[r2][c2]), RMul(A[r1][c2], A[r2][c1]))

Adj(A) ==
  << <<Minor(A, 2, 3, 2, 3), RNeg(Minor(A, 1, 3, 2, 3)), Minor(A, 1, 2, 2, 3)>>,
     <<RNeg(Minor(A, 2, 3, 1, 3)), Minor(A, 1, 3, 1, 3), RNeg(Minor(A, 1, 2, 1, 3))>>,
     <<Minor(A, 2, 3, 1, 2), RNeg(Minor(A, 1, 3, 1, 2)), Minor(A, 1, 2, 1, 2)>> >>

Inv(A) ==
  [i \in 1..3 |-> [j \in 1..3 |-> RDiv(Adj(A)[i][j], Det(A))]]

----------------------------------------------------------------------------
(* sin and cos, at the angles of the model.                                *)

sin(a) ==
  CASE a = "0"           -> R(0)
    [] a = "pi/2"        -> R(1)
    [] a = "atan(3/4)"   -> <<3, 5>>
    [] a = "-atan(4/3)"  -> <<-4, 5>>
    [] a = "-atan(5/12)" -> <<-5, 13>>

cos(a) ==
  CASE a = "0"           -> R(1)
    [] a = "pi/2"        -> R(0)
    [] a = "atan(3/4)"   -> <<4, 5>>
    [] a = "-atan(4/3)"  -> <<3, 5>>
    [] a = "-atan(5/12)" -> <<12, 13>>

----------------------------------------------------------------------------
(* The translational cell.  `in` gives the values of the symbols           *)
(* u,v,w,p,q,r,G,psi,theta,phi,F_x,F_y,F_z,m.                              *)

vel_b(in) ==
  <<in.u, in.v, in.w>>

omega_of(in) ==
  <<in.p, in.q, in.r>>

F_a(in) ==
  <<in.F_x, in.F_y, in.F_z>>

g_n_negated(in) ==
  <<R(0), R(0), RNeg(in.G)>>

g_n_north(in) ==
  <<in.G, R(0), R(0)>>

g_n(in) ==
  <<R(0), R(0), in.G>>

Rx(phi) ==
  << <<R(1), R(0), R(0)>>,
     <<R(0), cos(phi), sin(phi)>>,
     <<R(0), RNeg(sin(phi)), cos(phi)>> >>

RyTransposed(theta) ==
  << <<cos(theta), R(0), sin(theta)>>,
     <<R(0), R(1), R(0)>>,
     <<RNeg(sin(theta)), R(0), cos(theta)>> >>

Ry(theta) ==
  << <<cos(theta), R(0), RNeg(sin(theta))>>,
     <<R(0), R(1), R(0)>>,
     <<sin(theta), R(0), cos(theta)>> >>

Rz(psi) ==
  << <<cos(psi), sin(psi), R(0)>>,
     <<RNeg(sin(psi)), cos(psi), R(0)>>,
     <<R(0), R(0), R(1)>> >>

C_bn_of(in) ==
  MatMul(MatMul(Rx(in.phi), Ry(in.theta)), Rz(in.psi))

acc_cm_of(in) ==
  VSub(VAdd(VScale(RDiv(R(1), in.m), F_a(in)), MatVec(C_bn_of(in), g_n(in))),
       Cross(omega_of(in), vel_b(in)))

----------------------------------------------------------------------------
(* The rotational cell.  `in` gives the values of the symbols              *)
(* J_x,J_y,J_z,J_xz,L,M,N; p,q,r come from the omega_b the translational   *)
(* cell left in the namespace.                                             *)

M_AT(in) ==
  <<in.L, in.M, in.N>>

J_b_swapped(in) ==
  << <<in.J_x, R(0), in.J_xz>>,
     <<R(0), in.J_z, R(0)>>,
     <<in.J_xz, R(0), in.J_y>> >>

J_b(in) ==
  << <<in.J_x, R(0), in.J_xz>>,
     <<R(0), in.J_y, R(0)>>,
     <<in.J_xz, R(0), in.J_z>> >>

ang_acc_cm_of(in, om) ==
  MatVec(Inv(J_b(in)), VSub(M_AT(in), Cross(om, MatVec(J_b(in), om))))

----------------------------------------------------------------------------
(* The kernel.  <<>> is a name that is not bound.  last/out are the cell   *)
(* run last and how it ended; tin/rin the symbol values of the last run of *)
(* each cell; prevT/prevR the values and the result of the run before it.  *)

Undefined ==
  <<>>

ImportCell ==
  /\ imported' = TRUE
  /\ last' = "import"
  /\ out' = "ok"
  /\ UNCHANGED <<omega_b, C_bn, acc_cm, ang_acc_cm, tin, rin, prevT, prevR>>

TranslationalCell(in) ==
  /\ last' = "translational"
  /\ tin' = in
  /\ IF imported
       THEN /\ omega_b' = omega_of(in)
            /\ C_bn' = C_bn_of(in)
            /\ acc_cm' = acc_cm_of(in)
            /\ out' = "ok"
            /\ prevT' = IF acc_cm = Undefined THEN <<>> ELSE <<tin, acc_cm>>
       ELSE /\ out' = "NameError"
            /\ UNCHANGED <<omega_b, C_bn, acc_cm, prevT>>
  /\ UNCHANGED <<imported, ang_acc_cm, rin, prevR>>

RotationalCell(in) ==
  /\ last' = "rotational"
  /\ rin' = in
  /\ IF imported /\ omega_b # Undefined
       THEN /\ ang_acc_cm' = ang_acc_cm_of(in, omega_b)
            /\ out' = "ok"
            /\ prevR' = IF ang_acc_cm = Undefined THEN <<>> ELSE <<rin, ang_acc_cm>>
       ELSE /\ out' = "NameError"
            /\ UNCHANGED <<ang_acc_cm, prevR>>
  /\ UNCHANGED <<imported, omega_b, C_bn, acc_cm, tin, prevT>>

Fresh ==
  /\ imported = FALSE
  /\ omega_b = Undefined
  /\ C_bn = Undefined
  /\ acc_cm = Undefined
  /\ ang_acc_cm = Undefined
  /\ last = "none"
  /\ out = "ok"
  /\ prevT = <<>>
  /\ prevR = <<>>

----------------------------------------------------------------------------
(* Symbol values.                                                          *)

MaxRate == 1

MaxJxz == 1

Rates ==
  {Norm(k, 10) : k \in -MaxRate..MaxRate}

Rates3 ==
  Rates \X Rates \X Rates

TIn(vb, om, F, m, G, phi, theta, psi) ==
  [u |-> vb[1], v |-> vb[2], w |-> vb[3], p |-> om[1], q |-> om[2], r |-> om[3],
   G |-> G, psi |-> psi, theta |-> theta, phi |-> phi,
   F_x |-> F[1], F_y |-> F[2], F_z |-> F[3], m |-> m]

RIn(Jx, Jy, Jz, Jxz, Mo) ==
  [J_x |-> Jx, J_y |-> Jy, J_z |-> Jz, J_xz |-> Jxz,
   L |-> Mo[1], M |-> Mo[2], N |-> Mo[3]]

Zero3 ==
  <<R(0), R(0), R(0)>>

T0 ==
  TIn(Zero3, Zero3, Zero3, R(1), R(0), "0", "0", "0")

R0 ==
  RIn(R(1), R(1), R(1), R(0), Zero3)

Vels ==
  {Zero3, <<R(100), R(0), R(0)>>, <<R(1), R(2), R(-3)>>}

Forces ==
  {Zero3, <<R(1), R(-2), R(3)>>}

Gravities ==
  {R(0), <<981, 100>>}

Attitudes ==
  {<<"0", "0">>, <<"atan(3/4)", "-atan(4/3)">>, <<"pi/2", "-atan(5/12)">>,
   <<"atan(3/4)", "0">>}

Yaws ==
  {"0", "atan(3/4)"}

TValid ==
  {TIn(vb, om, F, R(1000), G, at[1], at[2], "0") :
     vb \in Vels, om \in Rates3, F \in Forces, G \in Gravities, at \in Attitudes}

TInvalid ==
  {TIn(vb, <<R(0), Norm(MaxRate, 10), R(0)>>, F, m, <<981, 100>>, at[1], at[2], "0") :
     vb \in Vels, F \in Forces, m \in {R(-1), R(0)},
     at \in {<<"0", "0">>, <<"atan(3/4)", "-atan(4/3)">>}}

TInputs ==
  TValid \cup TInvalid

Moments ==
  {Zero3, <<R(1), R(2), R(-1)>>}

RInputs ==
  {RIn(R(Jx), R(Jy), R(Jz), R(Jxz), Mo) :
     Jx \in {1, 2}, Jy \in {-1, 0, 3}, Jz \in {1, 3}, Jxz \in -1..MaxJxz,
     Mo \in Moments}

Omegas ==
  {<<R(p), R(q), R(r)>> : p \in {0, 1}, q \in {0, 1}, r \in {0, -2}}

TInputsR ==
  {TIn(Zero3, om, Zero3, R(1), R(0), "0", "0", "0") : om \in Omegas}

SmallT ==
  {TIn(<<R(100), R(0), R(0)>>, om, Zero3, R(1000), <<981, 100>>, at[1], at[2], "0") :
     om \in {<<R(0), Norm(MaxRate, 10), R(0)>>, <<Norm(MaxRate, 10), R(0), Norm(-MaxRate, 10)>>},
     at \in {<<"0", "0">>, <<"atan(3/4)", "-atan(4/3)">>}}

SmallR ==
  {RIn(R(2), R(1), R(3), R(Jxz), <<R(1), R(2), R(-1)>>) : Jxz \in 0..MaxJxz}

----------------
(* Spec: the kernel, every cell run in any order with any symbol values.   *)

Init ==
  /\ Fresh
  /\ tin = T0
  /\ rin = R0

Next ==
  \/ ImportCell
  \/ \E in \in SmallT : TranslationalCell(in)
  \/ \E in \in SmallR : RotationalCell(in)

Spec ==
  Init /\ [][Next]_vars

(* SpecT: the translational cell as a function of its symbol values, which *)
(* Init draws; the cell is run again with any yaw.                         *)

InitT ==
  /\ Fresh
  /\ tin \in TInputs
  /\ rin = R0

NextT ==
  \/ ImportCell
  \/ \E a \in Yaws : TranslationalCell([tin EXCEPT !.psi = a])

SpecT ==
  InitT /\ [][NextT]_vars

(* SpecR: the rotational cell as a function of its symbol values and of    *)
(* p,q,r, which Init draws.                                                *)

InitR ==
  /\ Fresh
  /\ tin \in TInputsR
  /\ rin \in RInputs

NextR ==
  \/ ImportCell
  \/ TranslationalCell(tin)
  \/ RotationalCell(rin)

SpecR ==
  InitR /\ [][NextR]_vars

----------------------------------------------------------------------------
(* Closed forms the results are compared with.                             *)

GravityClosedForm(in) ==
  <<RNeg(RMul(in.G, sin(in.theta))),
    RMul(in.G, RMul(sin(in.phi), cos(in.theta))),
    RMul(in.G, RMul(cos(in.phi), cos(in.theta)))>>

AccClosedForm(in) ==
  <<RAdd(RSub(RSub(RDiv(in.F_x, in.m), RMul(in.G, sin(in.theta))), RMul(in.q, in.w)),
         RMul(in.r, in.v)),
    RSub(RAdd(RAdd(RDiv(in.F_y, in.m), RMul(in.G, RMul(sin(in.phi), cos(in.theta)))),
              RMul(in.p, in.w)),
         RMul(in.r, in.u)),
    RAdd(RSub(RAdd(RDiv(in.F_z, in.m), RMul(in.G, RMul(cos(in.phi), cos(in.theta)))),
              RMul(in.p, in.v)),
         RMul(in.q, in.u))>>

Delta(in) ==
  RSub(RMul(in.J_x, in.J_z), RMul(in.J_xz, in.J_xz))

Sum4(a, b, c, d) ==
  RAdd(RAdd(RAdd(a, b), c), d)

Prod3(a, b, c) ==
  RMul(a, RMul(b, c))

(* J_xz(J_x-J_y+J_z) *)
CouplingA(in) ==
  RMul(in.J_xz, RAdd(RSub(in.J_x, in.J_y), in.J_z))

(* The closed form of the rotational derivative, as the specification and  *)
(* the notebook's markdown write it; rterm is the p,q,r factor of the      *)
(* second term of the r_dot numerator.                                     *)
ClosedFormWith(in, om, rterm) ==
  LET p == om[1]
      q == om[2]
      r == om[3]
  IN  <<RDiv(Sum4(Prod3(CouplingA(in), p, q),
                  RNeg(Prod3(RAdd(RMul(in.J_z, RSub(in.J_z, in.J_y)),
                                  RMul(in.J_xz, in.J_xz)), q, r)),
                  RMul(in.J_z, in.L),
                  RMul(in.J_xz, in.N)),
             Delta(in)),
        RDiv(RAdd(RSub(Prod3(RSub(in.J_z, in.J_x), r, p),
                       RMul(in.J_xz, RSub(RMul(p, p), RMul(r, r)))),
                  in.M),
             in.J_y),
        RDiv(Sum4(RNeg(Prod3(CouplingA(in), q, r)),
                  RMul(RAdd(RMul(in.J_x, RSub(in.J_x, in.J_y)),
                            RMul(in.J_xz, in.J_xz)), rterm),
                  RMul(in.J_xz, in.L),
                  RMul(in.J_x, in.N)),
             Delta(in))>>

RotationalClosedForm(in, om) ==
  ClosedFormWith(in, om, RMul(om[1], om[2]))

MarkdownClosedForm(in, om) ==
  ClosedFormWith(in, om, Prod3(om[1], om[2], om[3]))

EulerEquations(in, om) ==
  LET p == om[1]
      q == om[2]
      r == om[3]
  IN  <<RDiv(RAdd(Prod3(RSub(in.J_y, in.J_z), q, r), in.L), in.J_x),
        RDiv(RAdd(Prod3(RSub(in.J_z, in.J_x), r, p), in.M), in.J_y),
        RDiv(RAdd(Prod3(RSub(in.J_x, in.J_y), p, q), in.N), in.J_z)>>

Scenario ==
  TIn(<<R(100), R(0), R(0)>>, <<R(0), <<1, 10>>, R(0)>>, Zero3, R(1000),
      <<981, 100>>, "0", "0", "0")

SameButYaw(a, b) ==
  [a EXCEPT !.psi = b.psi] = b

TranslationalRan ==
  last = "translational" /\ out = "ok"

RotationalRan ==
  last = "rotational" /\ out = "ok"

----------------------------------------------------------------------------
(* C1: whenever the translational cell has run with m > 0, the acc_cm it   *)
(* computed as F/m + C_bn*(0,0,G) - (omega x v) equals, component by       *)
(* component, the closed form of the cell's output.                        *)
C1_TranslationalClosedForm ==
  (TranslationalRan /\ Positive(tin.m)) => acc_cm = AccClosedForm(tin)

C1_Witness ==
  /\ TranslationalRan
  /\ Positive(tin.m)
  /\ tin.F_x # R(0)
  /\ tin.G # R(0)
  /\ tin.theta = "-atan(4/3)"
  /\ tin.phi = "atan(3/4)"
  /\ tin.psi = "atan(3/4)"
  /\ tin.p # R(0) /\ tin.q # R(0) /\ tin.r # R(0)
  /\ tin.u # R(0) /\ tin.v # R(0) /\ tin.w # R(0)
  /\ acc_cm = AccClosedForm(tin)

(* C2: whenever the rotational cell has run with J_y > 0 and Delta > 0,    *)
(* the ang_acc_cm it computed by inverting J_b agrees with the closed form *)
(* of the specification in all three components.                           *)
C2_ClosedFormAgrees ==
  (RotationalRan /\ Positive(rin.J_y) /\ Positive(Delta(rin)))
    => ang_acc_cm = RotationalClosedForm(rin, omega_b)

(* C3: whenever the translational cell has run, C_bn*(0,0,G), with C_bn    *)
(* the full matrix product Rx*Ry*Rz, equals the closed-form projection     *)
(* (-G sin(theta), G sin(phi) cos(theta), G cos(phi) cos(theta)).          *)
C3_GravityProjection ==
  TranslationalRan => MatVec(C_bn, <<R(0), R(0), tin.G>>) = GravityClosedForm(tin)

C3_Witness ==
  /\ TranslationalRan
  /\ tin.G # R(0)
  /\ tin.theta = "-atan(4/3)"
  /\ tin.phi = "atan(3/4)"
  /\ tin.psi = "atan(3/4)"
  /\ MatVec(C_bn, <<R(0), R(0), tin.G>>) = <<<<981, 125>>, <<8829, 2500>>, <<2943, 625>>>>

(* C4: whenever the translational cell is run with m <= 0 it fails with a  *)
(* DomainError and leaves no acceleration.                                 *)
C4_NonPositiveMassRejected ==
  (last = "translational" /\ imported /\ ~Positive(tin.m))
    => (out = "DomainError" /\ acc_cm = Undefined)

(* C5: whenever the rotational cell is run with J_y <= 0 or Delta <= 0 it  *)
(* fails with a DomainError and leaves no angular acceleration.            *)
C5_InvalidInertiaRejected ==
  (last = "rotational" /\ imported /\ omega_b # Undefined
     /\ (~Positive(rin.J_y) \/ ~Positive(Delta(rin))))
    => (out = "DomainError" /\ ang_acc_cm = Undefined)

C7_Stateless ==
  /\ (imported /\ last \in {"translational", "rotational"}) => out = "ok"
  /\ (TranslationalRan /\ prevT # <<>> /\ prevT[1] = tin) => prevT[2] = acc_cm
  /\ (RotationalRan /\ prevR # <<>> /\ prevR[1] = rin) => prevR[2] = ang_acc_cm

(* C8: the translational cell run on the concrete scenario gives           *)
(* u_dot = 0, v_dot = 0 and w_dot = G + q*u = 9.81 + 10 = 19.81.           *)
C8_Scenario ==
  (TranslationalRan /\ tin = Scenario) => acc_cm = <<R(0), R(0), <<1981, 100>>>>

C8_Witness ==
  /\ TranslationalRan
  /\ tin = Scenario
  /\ acc_cm[3] = <<1981, 100>>

(* C8 as stated: on the concrete scenario w_dot = 100*0.1 = 10.            *)
C8_ScenarioAsStated ==
  (TranslationalRan /\ tin = Scenario) => acc_cm = <<R(0), R(0), R(10)>>

(* C9: whenever the rotational cell has run with J_y # 0 and Delta # 0,    *)
(* ang_acc_cm equals the closed form of the notebook's markdown.           *)
C9_MarkdownAgrees ==
  (RotationalRan /\ rin.J_y # R(0) /\ Delta(rin) # R(0))
    => ang_acc_cm = MarkdownClosedForm(rin, omega_b)

(* C10: two consecutive runs of the translational cell whose symbol values *)
(* differ in nothing but the yaw psi give the same acceleration.           *)
C10_YawIndependent ==
  (TranslationalRan /\ prevT # <<>> /\ SameButYaw(prevT[1], tin))
    => prevT[2] = acc_cm

C10_Witness ==
  /\ TranslationalRan
  /\ prevT # <<>>
  /\ SameButYaw(prevT[1], tin)
  /\ prevT[1].psi = "0" /\ tin.psi = "atan(3/4)"
  /\ tin.G # R(0)
  /\ tin.theta = "-atan(4/3)"
  /\ Positive(tin.m)
  /\ prevT[2] = acc_cm

====
